---------------------------- MODULE Spec2Model ----------------------------
(***************************************************************************)
(* A model of tarot_copilot.py: the TarotSession deck manager (reset_deck, *)
(* draw_cards), the interpretation lookups, create_reading, and the        *)
(* module-level script that draws for a chosen layout and assembles the    *)
(* reading.                                                                *)
(*                                                                         *)
(* Three specifications share the variables:                               *)
(*   Spec         any interleaving of reset_deck() and draw_cards(n) on    *)
(*                one session;                                             *)
(*   SpecReading  create_reading applied to arbitrary lists of pairs and   *)
(*                layout names;                                            *)
(*   SpecMain     the script at the bottom of the file, step by step.      *)
(*                                                                         *)
(* secrets.choice is a nondeterministic choice over every element of its   *)
(* argument.  The deck literal has 78 entries, so a draw of k cards has    *)
(* 78*77*...*2^k outcomes; the model therefore runs a session either on    *)
(* the whole literal, with the number of cards requested capped at         *)
(* MaxFullDraws, or on the first NumCards entries of the literal, where    *)
(* every state up to and past exhaustion is explored.  full_deck records   *)
(* which of the two lists reset_deck assigns.                              *)
(***************************************************************************)
EXTENDS Integers, Sequences, FiniteSets, TLC

VARIABLES
    full_deck,        \* the list reset_deck assigns to self.deck
    deck,             \* self.deck
    drawn_cards,      \* self.drawn_cards
    op,               \* the last session operation: "init", "reset", "draw"
    number_of_cards,  \* the argument of the last draw_cards call
    ret,              \* the list the last draw_cards call returned
    printed,          \* the last draw_cards call printed "No more cards to draw."
    raised,           \* the exception that escaped the last draw_cards call, or "none"
    pre_deck,         \* self.deck before the last operation
    pre_drawn,        \* self.drawn_cards before the last operation
    requested,        \* sum of the draw sizes requested since the last reset
    returned,         \* sum of the lengths of the lists returned since the last reset
    spent,            \* sum of the draw sizes requested since construction
    pc,               \* position of the module-level script
    layout_choice,    \* the layout name the user typed
    in_cards,         \* create_reading's drawn_cards argument
    layout_name,      \* create_reading's layout_name argument
    outcome           \* what the last create_reading call did

session == <<deck, drawn_cards, op, number_of_cards, ret, printed, raised,
             pre_deck, pre_drawn, requested, returned, spent>>
call == <<in_cards, layout_name, outcome>>
vars == <<full_deck, session, pc, layout_choice, call>>

---------------------------------------------------------------------------
(* Bounds of the exploration.                                              *)

NumCards == 3       \* entries of the deck literal in the truncated deck
MaxDraw == 3        \* largest n of a draw_cards(n) call in Spec
MaxRequested == 5   \* cap on the sum of draw sizes of one run (truncated deck)
MaxFullDraws == 1   \* the same cap when the session holds the whole literal
MaxPairs == 3       \* longest drawn_cards list handed to create_reading in SpecReading

---------------------------------------------------------------------------
(* Helpers for Python lists and dicts.                                     *)

Range(seq) == {seq[i] : i \in 1..Len(seq)}

NoDuplicates(seq) == \A i, j \in 1..Len(seq) : i # j => seq[i] # seq[j]

\* the index of the first occurrence of x in seq (x occurs in seq)
IndexOf(seq, x) == CHOOSE i \in 1..Len(seq) :
                       seq[i] = x /\ \A j \in 1..(i - 1) : seq[j] # x

\* the card names of a list of (card, orientation) pairs
Cards(pairs) == {pairs[i][1] : i \in 1..Len(pairs)}

---------------------------------------------------------------------------
(* TarotSession                                                            *)

\* the list literal of reset_deck
DeckLiteral == <<
    "The Fool", "The Magician", "The High Priestess", "The Empress", "The Emperor",
    "The Hierophant", "The Lovers", "The Chariot", "Strength", "The Hermit",
    "Wheel of Fortune", "Justice", "The Hanged Man", "Death", "Temperance",
    "The Devil", "The Tower", "The Star", "The Moon", "The Sun",
    "Judgement", "The World", "Ace of Wands", "Two of Wands", "Three of Wands",
    "Four of Wands", "Five of Wands", "Six of Wands", "Seven of Wands", "Eight of Wands",
    "Nine of Wands", "Ten of Wands", "Page of Wands", "Knight of Wands", "Queen of Wands",
    "King of Wands", "Ace of Cups", "Two of Cups", "Three of Cups", "Four of Cups",
    "Five of Cups", "Six of Cups", "Seven of Cups", "Eight of Cups", "Nine of Cups",
    "Ten of Cups", "Page of Cups", "Knight of Cups", "Queen of Cups", "King of Cups",
    "Ace of Swords", "Two of Swords", "Three of Swords", "Four of Swords", "Five of Swords",
    "Six of Swords", "Seven of Swords", "Eight of Swords", "Nine of Swords", "Ten of Swords",
    "Page of Swords", "Knight of Swords", "Queen of Swords", "King of Swords",
    "Ace of Pentacles", "Two of Pentacles", "Three of Pentacles", "Four of Pentacles",
    "Five of Pentacles", "Six of Pentacles", "Seven of Pentacles", "Eight of Pentacles",
    "Nine of Pentacles", "Ten of Pentacles", "Page of Pentacles", "Knight of Pentacles",
    "Queen of Pentacles", "King of Pentacles" >>

\* the deck lists a session is run on: the literal, and its first NumCards entries
TruncatedDeck == SubSeq(DeckLiteral, 1, NumCards)
DeckLists == {DeckLiteral, TruncatedDeck}

\* how many cards may be requested in one run
DrawBudget(full) == IF full = DeckLiteral THEN MaxFullDraws ELSE MaxRequested

Orientations == <<"Upright", "Reversed">>

\* secrets.choice(seq): any element; IndexError on an empty sequence
choice(seq) == Range(seq)

\* a reset that keeps the history of the previous session
reset_deck_keeps_history(full, old_drawn) == [deck |-> full, drawn_cards |-> old_drawn]

\* reset_deck: the two assignments
reset_deck(full, old_drawn) == [deck |-> full, drawn_cards |-> <<>>]

\* a removal that leaves the list as it is
remove_nothing(seq, x) == seq

\* a removal that pops the last element whatever x is
remove_last(seq, x) == SubSeq(seq, 1, Len(seq) - 1)

\* list.remove(x): drops the first occurrence of x
remove(seq, x) == LET k == IndexOf(seq, x)
                  IN  SubSeq(seq, 1, k - 1) \o SubSeq(seq, k + 1, Len(seq))

\* a test that stops the loop while one card is left
exhausted_off_by_one(d) == Len(d) <= 1

\* the loop's test len(self.deck) == 0
exhausted(d) == Len(d) = 0

\* an append that forgets the pair
append_nothing(history, pair) == history

\* self.drawn_cards.append(pair)
append_history(history, pair) == Append(history, pair)

\* one pass of the loop body after the exhaustion test: the state after
\* choosing card and orientation
draw_one(st, card, card_orientation) ==
    [st EXCEPT !.deck = remove(st.deck, card),
               !.ret = Append(st.ret, <<card, card_orientation>>),
               !.drawn_cards = append_history(st.drawn_cards,
                                              <<card, card_orientation>>)]

\* the for loop of draw_cards with i passes left: the set of states it can end in
RECURSIVE draw_loop(_, _)
draw_loop(i, st) ==
    IF i <= 0 THEN {st}
    ELSE IF exhausted(st.deck) THEN {[st EXCEPT !.printed = TRUE]}
    ELSE IF choice(st.deck) = {} THEN {[st EXCEPT !.raised = "IndexError"]}
    ELSE UNION { draw_loop(i - 1, draw_one(st, card, o)) :
                     card \in choice(st.deck), o \in choice(Orientations) }

\* draw_cards(n) on a session holding d and h: every way the call can end
draw_cards(d, h, n) ==
    draw_loop(n, [deck |-> d, drawn_cards |-> h, ret |-> <<>>,
                  printed |-> FALSE, raised |-> "none"])

---------------------------------------------------------------------------
(* The session under arbitrary reset_deck / draw_cards calls.              *)

NoOutcome == [kind |-> "none", template |-> "", layout_name |-> "",
              count |-> 0, reading |-> <<>>]

\* TarotSession(): __init__ calls reset_deck on an object with no fields yet
NewSession(full) ==
    /\ deck = reset_deck(full, <<>>).deck
    /\ drawn_cards = reset_deck(full, <<>>).drawn_cards
    /\ op = "init"
    /\ number_of_cards = 0
    /\ ret = <<>>
    /\ printed = FALSE
    /\ raised = "none"
    /\ pre_deck = <<>>
    /\ pre_drawn = <<>>
    /\ requested = 0
    /\ returned = 0
    /\ spent = 0

Init ==
    /\ full_deck \in DeckLists
    /\ NewSession(full_deck)
    /\ pc = "api"
    /\ layout_choice = ""
    /\ in_cards = <<>>
    /\ layout_name = ""
    /\ outcome = NoOutcome

Reset ==
    /\ op' = "reset"
    /\ deck' = reset_deck(full_deck, drawn_cards).deck
    /\ drawn_cards' = reset_deck(full_deck, drawn_cards).drawn_cards
    /\ pre_deck' = deck
    /\ pre_drawn' = drawn_cards
    /\ number_of_cards' = 0
    /\ ret' = <<>>
    /\ printed' = FALSE
    /\ raised' = "none"
    /\ requested' = 0
    /\ returned' = 0
    /\ UNCHANGED <<full_deck, spent, pc, layout_choice, call>>

\* the effect of one draw_cards(n) call on the session variables
DoDraw(n) ==
    \E st \in draw_cards(deck, drawn_cards, n) :
        /\ op' = "draw"
        /\ number_of_cards' = n
        /\ deck' = st.deck
        /\ drawn_cards' = st.drawn_cards
        /\ ret' = st.ret
        /\ printed' = st.printed
        /\ raised' = st.raised
        /\ pre_deck' = deck
        /\ pre_drawn' = drawn_cards
        /\ requested' = requested + n
        /\ returned' = returned + Len(st.ret)
        /\ spent' = spent + n

Draw ==
    \E n \in 0..MaxDraw :
        /\ spent + n <= DrawBudget(full_deck)
        /\ DoDraw(n)
        /\ UNCHANGED <<full_deck, pc, layout_choice, call>>

Next == Reset \/ Draw

Spec == Init /\ [][Next]_vars

---------------------------------------------------------------------------
(* The reference tables.  The script loads them from JSON files that are   *)
(* not part of the source; the tables below are one input, chosen so that  *)
(* every case of the lookups occurs: a card in a table, a card missing     *)
(* from it, and a card whose meaning entry lacks one orientation.          *)

\* Python's None
None == [NoneType |-> TRUE]

\* the empty dict {}
EmptyDict == <<>>

\* dict.get(key, default)
Get(d, key, default) == IF key \in DOMAIN d THEN d[key] ELSE default

\* bool(v) for None and for dicts
Truthy(v) == v # None /\ DOMAIN v # {}

tarot_card_meanings ==
    ("The Fool" :> [Upright |-> "New beginnings", Reversed |-> "Recklessness"])
    @@ ("Death" :> [Reversed |-> "Resistance to change"])

hidden_meanings_data ==
    ("The Fool" :> "The white rose") @@ ("Death" :> "The rising sun")

numerology_data ==
    ("The Fool" :> "0: potential") @@ ("The Sun" :> "19: success")

color_theory_data ==
    ("Death" :> "Black: the unknown") @@ ("The Sun" :> "Yellow: vitality")

PositionLabels == <<"Present", "Challenge", "Past", "Future", "Above", "Below",
                    "Advice", "External", "Hopes", "Outcome">>

\* a layout that asks for one card more than the truncated deck holds
OversizeLayout == [positions |-> SubSeq(PositionLabels, 1, NumCards + 1)]

spread_layouts ==
    ("three_card" :> [positions |-> <<"Past", "Present", "Future">>])
    @@ ("one_card" :> [positions |-> <<"Focus">>])
    @@ ("no_card" :> [positions |-> <<>>])
    @@ ("oversize" :> OversizeLayout)

\* the layout names a caller may pass: every key of the table and one that is none
LayoutInputs == DOMAIN spread_layouts \cup {"no_such_layout"}

\* the pairs handed to create_reading in SpecReading
PairInputs == {"The Fool", "Death", "The Sun"} \X {"Upright", "Reversed"}
PairLists == UNION {[1..n -> PairInputs] : n \in 0..MaxPairs}

---------------------------------------------------------------------------
(* interpret_card and create_reading                                       *)

\* a lookup whose inner get has no default: str(None) when the orientation is missing
interpret_card_no_default(card, orientation) ==
    Get(Get(tarot_card_meanings, card, EmptyDict), orientation, "None")

interpret_card(card, orientation) ==
    Get(Get(tarot_card_meanings, card, EmptyDict), orientation, "No meaning found.")

\* a truth test made on the position list instead of the layout
truthy_positions(layout) == layout # None /\ Len(layout.positions) > 0

\* the test `if not layout` passes
layout_defined(layout) == Truthy(layout)

\* a count test that only rejects too many cards
count_exceeds(n_drawn, n_positions) == n_drawn > n_positions

\* len(drawn_cards) != len(layout['positions'])
count_differs(n_drawn, n_positions) == n_drawn # n_positions

\* a message that names the number of cards given
actual_count(drawn, layout) == Len(drawn)

\* the count the mismatch message names: len(layout['positions'])
expected_count(drawn, layout) == Len(layout.positions)

\* the label at the mirrored index
position_mirrored(positions, i) == positions[Len(positions) - i + 1]

\* layout['positions'][i], for the i-th pair of enumerate (counted from 1 here)
position_at(positions, i) == positions[i]

\* the dict appended for the i-th pair
reading_record(layout, drawn, i) ==
    LET card == drawn[i][1]
        orientation == drawn[i][2]
    IN  ("Position" :> position_at(layout.positions, i))
        @@ ("Card" :> card)
        @@ ("Orientation" :> orientation)
        @@ ("Meaning" :> interpret_card(card, orientation))
        @@ ("Hidden Symbols" :> Get(hidden_meanings_data, card, "No hidden symbols found."))
        @@ ("Numerology" :> Get(numerology_data, card, "No numerology found."))
        @@ ("Color Theory" :> Get(color_theory_data, card, "No color theory found."))

\* the f-strings of the two ValueErrors, with their fields left open
NotDefinedTemplate == "Layout '{}' is not defined."
MismatchTemplate == "{} layout requires exactly {} cards."

\* create_reading: a ValueError with its message, or the returned list
create_reading(drawn, name) ==
    LET layout == Get(spread_layouts, name, None)
    IN  IF ~layout_defined(layout)
        THEN [kind |-> "ValueError", template |-> NotDefinedTemplate,
              layout_name |-> name, count |-> 0, reading |-> <<>>]
        ELSE IF count_differs(Len(drawn), Len(layout.positions))
        THEN [kind |-> "ValueError", template |-> MismatchTemplate,
              layout_name |-> name, count |-> expected_count(drawn, layout),
              reading |-> <<>>]
        ELSE [kind |-> "return", template |-> "", layout_name |-> name, count |-> 0,
              reading |-> [i \in 1..Len(drawn) |-> reading_record(layout, drawn, i)]]

---------------------------------------------------------------------------
(* create_reading on arbitrary arguments.                                  *)

InitReading ==
    /\ full_deck = TruncatedDeck
    /\ NewSession(full_deck)
    /\ pc = "call"
    /\ layout_choice = ""
    /\ in_cards \in PairLists
    /\ layout_name \in LayoutInputs
    /\ outcome = NoOutcome

CallCreateReading ==
    /\ pc = "call"
    /\ outcome' = create_reading(in_cards, layout_name)
    /\ pc' = "returned"
    /\ UNCHANGED <<full_deck, session, layout_choice, in_cards, layout_name>>

NextReading == CallCreateReading

SpecReading == InitReading /\ [][NextReading]_vars

---------------------------------------------------------------------------
(* The module-level script.                                                *)

InitMain ==
    /\ full_deck \in DeckLists
    /\ NewSession(full_deck)
    /\ pc = "input"
    /\ layout_choice = ""
    /\ in_cards = <<>>
    /\ layout_name = ""
    /\ outcome = NoOutcome

\* get_user_input(), TarotSession(), the layout lookup and the test on it.
\* The session variables already hold the freshly constructed session: nothing
\* reads them before the constructor runs.  A layout is chosen only if the
\* draw it leads to is within the draw budget.
MainStart ==
    /\ pc = "input"
    /\ \E name \in LayoutInputs :
        LET layout == Get(spread_layouts, name, None)
        IN  /\ Truthy(layout) => Len(layout.positions) <= DrawBudget(full_deck)
            /\ layout_choice' = name
            /\ pc' = IF Truthy(layout) THEN "draw" ELSE "not_defined"
    /\ UNCHANGED <<full_deck, session, call>>

\* drawn_cards = session.draw_cards(len(layout['positions']))
MainDraw ==
    /\ pc = "draw"
    /\ DoDraw(Len(spread_layouts[layout_choice].positions))
    /\ pc' = "reading"
    /\ UNCHANGED <<full_deck, layout_choice, call>>

\* reading = create_reading(drawn_cards, layout_choice), then the prints;
\* a ValueError ends the script with a traceback
MainReading ==
    /\ pc = "reading"
    /\ in_cards' = ret
    /\ layout_name' = layout_choice
    /\ outcome' = create_reading(ret, layout_choice)
    /\ pc' = IF create_reading(ret, layout_choice).kind = "return"
             THEN "printed" ELSE "raised"
    /\ UNCHANGED <<full_deck, session, layout_choice>>

NextMain == MainStart \/ MainDraw \/ MainReading

SpecMain == InitMain /\ [][NextMain]_vars

---------------------------------------------------------------------------
(* Properties of the session, checked under Spec.                          *)

\* C1: whatever draws were made since the session was constructed or last
\* reset, no card name occurs twice in drawn_cards, within one draw's
\* result or across draws.
C1_NoCardDrawnTwice ==
    \A i, j \in 1..Len(drawn_cards) :
        i # j => drawn_cards[i][1] # drawn_cards[j][1]

\* two draws in a row, each of which returned a card
C1_Witness ==
    /\ op = "draw"
    /\ Len(pre_drawn) >= 1
    /\ Len(ret) >= 1
    /\ Len(drawn_cards) = Len(pre_drawn) + Len(ret)

\* C2: right after reset_deck, and right after construction, the deck is
\* the full list of distinct card names (78 of them for the deck literal)
\* and drawn_cards is empty, whatever the session held before.
C2_ResetRestoresFullDeck ==
    op \in {"init", "reset"} =>
        /\ deck = full_deck
        /\ NoDuplicates(deck)
        /\ drawn_cards = <<>>
        /\ full_deck = DeckLiteral =>
               Len(deck) = 78 /\ Cardinality(Range(deck)) = 78

\* a reset of a session whose deck was exhausted
C2_Witness ==
    /\ op = "reset"
    /\ pre_deck = <<>>
    /\ Len(pre_drawn) = Len(full_deck)
    /\ deck = full_deck

\* C3: draw_cards(n), n >= 0, returns exactly n pairs when the deck holds
\* at least n cards; otherwise it stops early, returns no more pairs than
\* the deck held (fewer than n) and raises nothing.  Every returned card
\* was in the deck before the call and every orientation is Upright or
\* Reversed.
C3_DrawReturns ==
    op = "draw" =>
        /\ raised = "none"
        /\ number_of_cards <= Len(pre_deck) => Len(ret) = number_of_cards
        /\ number_of_cards > Len(pre_deck) =>
               Len(ret) <= Len(pre_deck) /\ Len(ret) < number_of_cards
        /\ \A i \in 1..Len(ret) :
               /\ ret[i][1] \in Range(pre_deck)
               /\ ret[i][2] \in {"Upright", "Reversed"}

\* a draw that asked for more cards than a non-empty deck held
C3_Witness ==
    /\ op = "draw"
    /\ Len(pre_deck) > 0
    /\ number_of_cards > Len(pre_deck)
    /\ Len(ret) = Len(pre_deck)

\* C4: a draw leaves the history it found as a prefix and appends the pairs
\* it returns, in the order returned.  Since the last reset the length of
\* the history is the sum of the returned lengths, and it is the sum of the
\* requested sizes as long as that sum does not exceed the size of the
\* full deck.
C4_HistoryAppendOnly ==
    /\ op = "draw" => drawn_cards = pre_drawn \o ret
    /\ Len(drawn_cards) = returned
    /\ requested <= Len(full_deck) => Len(drawn_cards) = requested

\* a second draw of two or more cards
C4_Witness ==
    /\ op = "draw"
    /\ pre_drawn # <<>>
    /\ Len(ret) >= 2
    /\ requested = Len(drawn_cards)

\* C10: under any interleaving of draws and resets the deck and the cards
\* of the history are disjoint and together are the full deck, so their
\* lengths add up to its size (78 for the deck literal).  A draw only
\* removes cards from the deck, only a reset makes it longer, and a draw
\* on an empty deck changes neither deck nor history.
C10_DeckAndHistoryPartition ==
    /\ Range(deck) \cap Cards(drawn_cards) = {}
    /\ Range(deck) \cup Cards(drawn_cards) = Range(full_deck)
    /\ Len(deck) + Len(drawn_cards) = Len(full_deck)
    /\ Len(drawn_cards) <= Len(full_deck)
    /\ full_deck = DeckLiteral =>
           Len(deck) + Len(drawn_cards) = 78 /\ Len(drawn_cards) <= 78
    /\ op = "draw" =>
           /\ Range(deck) \subseteq Range(pre_deck)
           /\ Len(deck) = Len(pre_deck) - Len(ret)
    /\ Len(deck) > Len(pre_deck) => op \in {"init", "reset"}
    /\ (op = "draw" /\ pre_deck = <<>>) =>
           deck = pre_deck /\ drawn_cards = pre_drawn

\* a draw of at least one card on an exhausted deck
C10_Witness ==
    /\ op = "draw"
    /\ pre_deck = <<>>
    /\ number_of_cards > 0
    /\ Len(drawn_cards) = Len(full_deck)

---------------------------------------------------------------------------
(* Properties of create_reading, checked under SpecReading.                *)

\* the call returned or raised, for a layout name of the table
CalledWithKnownLayout == pc = "returned" /\ layout_name \in DOMAIN spread_layouts

\* C5: for a defined layout and as many pairs as the layout has positions,
\* create_reading returns that many records in input order: record i has
\* the i-th position label, the i-th card and orientation, and the four
\* lookup results for that card and orientation.  With positions Past,
\* Present, Future and pairs (The Fool, Upright), (Death, Reversed),
\* (The Sun, Upright) the first record is Past / The Fool / Upright.
C5_RecordsInInputOrder ==
    /\ (CalledWithKnownLayout
        /\ Len(in_cards) = Len(spread_layouts[layout_name].positions)) =>
           /\ outcome.kind = "return"
           /\ Len(outcome.reading) = Len(spread_layouts[layout_name].positions)
           /\ \A i \in 1..Len(in_cards) :
                  LET r == outcome.reading[i]
                      card == in_cards[i][1]
                      orientation == in_cards[i][2]
                  IN  /\ r["Position"] = spread_layouts[layout_name].positions[i]
                      /\ r["Card"] = card
                      /\ r["Orientation"] = orientation
                      /\ r["Meaning"] = interpret_card(card, orientation)
                      /\ r["Hidden Symbols"] =
                             Get(hidden_meanings_data, card, "No hidden symbols found.")
                      /\ r["Numerology"] =
                             Get(numerology_data, card, "No numerology found.")
                      /\ r["Color Theory"] =
                             Get(color_theory_data, card, "No color theory found.")
    /\ (/\ pc = "returned"
        /\ layout_name = "three_card"
        /\ in_cards = << <<"The Fool", "Upright">>, <<"Death", "Reversed">>,
                         <<"The Sun", "Upright">> >>) =>
           /\ Len(outcome.reading) = 3
           /\ outcome.reading[1]["Position"] = "Past"
           /\ outcome.reading[1]["Card"] = "The Fool"
           /\ outcome.reading[1]["Orientation"] = "Upright"
           /\ outcome.reading[2]["Position"] = "Present"
           /\ outcome.reading[3]["Position"] = "Future"

\* the three-card example of the specification, assembled
C5_Witness ==
    /\ pc = "returned"
    /\ layout_name = "three_card"
    /\ in_cards = << <<"The Fool", "Upright">>, <<"Death", "Reversed">>,
                     <<"The Sun", "Upright">> >>
    /\ outcome.kind = "return"
    /\ Len(outcome.reading) = 3

\* C6: for a defined layout and a list of pairs that is shorter or longer
\* than the layout's positions, create_reading raises the count-mismatch
\* ValueError, whose message names the layout's position count, and
\* produces no reading.
C6_CountMismatchRaises ==
    (CalledWithKnownLayout
     /\ Len(in_cards) # Len(spread_layouts[layout_name].positions)) =>
        /\ outcome.kind = "ValueError"
        /\ outcome.template = MismatchTemplate
        /\ outcome.layout_name = layout_name
        /\ outcome.count = Len(spread_layouts[layout_name].positions)
        /\ outcome.reading = <<>>

\* two pairs against the three-position layout
C6_Witness ==
    /\ pc = "returned"
    /\ layout_name = "three_card"
    /\ Len(in_cards) = 2
    /\ outcome.kind = "ValueError"
    /\ outcome.count = 3

\* C7: a layout name that is no key of the layout table raises the
\* layout-not-defined ValueError for every list of pairs, never the
\* count mismatch and never a reading; a layout name that is a key of the
\* table never raises it.
C7_UnknownLayoutRaises ==
    pc = "returned" =>
        /\ layout_name \notin DOMAIN spread_layouts =>
               /\ outcome.kind = "ValueError"
               /\ outcome.template = NotDefinedTemplate
               /\ outcome.layout_name = layout_name
               /\ outcome.reading = <<>>
        /\ layout_name \in DOMAIN spread_layouts =>
               outcome.template # NotDefinedTemplate

\* an unknown layout name with a list of pairs that no layout would reject
\* for its length alone
C7_Witness ==
    /\ pc = "returned"
    /\ layout_name = "no_such_layout"
    /\ Len(in_cards) = 3
    /\ outcome.template = NotDefinedTemplate

\* the text a table keyed by card alone yields
TableText(table, card, fallback) ==
    IF card \in DOMAIN table THEN table[card] ELSE fallback

\* C8: the lookups are total.  In every reading the Meaning is the table
\* text when the table has the (card, orientation) entry and "No meaning
\* found." otherwise, whether the card or only the orientation is missing;
\* Hidden Symbols, Numerology and Color Theory are the table text when the
\* card is in their table and their fallback otherwise.  A call with a
\* defined layout and a matching count therefore always returns.
C8_LookupsFallBack ==
    (CalledWithKnownLayout
     /\ Len(in_cards) = Len(spread_layouts[layout_name].positions)) =>
        /\ outcome.kind = "return"
        /\ \A i \in 1..Len(outcome.reading) :
               LET r == outcome.reading[i]
                   card == in_cards[i][1]
                   orientation == in_cards[i][2]
               IN  /\ r["Meaning"] =
                          IF /\ card \in DOMAIN tarot_card_meanings
                             /\ orientation \in DOMAIN tarot_card_meanings[card]
                          THEN tarot_card_meanings[card][orientation]
                          ELSE "No meaning found."
                   /\ r["Hidden Symbols"] =
                          TableText(hidden_meanings_data, card, "No hidden symbols found.")
                   /\ r["Numerology"] =
                          TableText(numerology_data, card, "No numerology found.")
                   /\ r["Color Theory"] =
                          TableText(color_theory_data, card, "No color theory found.")

\* a reading with a card whose meaning entry lacks the orientation, a card
\* missing from the meaning table and a card with the entry
C8_Witness ==
    /\ pc = "returned"
    /\ layout_name = "three_card"
    /\ in_cards = << <<"Death", "Upright">>, <<"The Sun", "Reversed">>,
                     <<"The Fool", "Reversed">> >>
    /\ outcome.kind = "return"
    /\ outcome.reading[1]["Meaning"] = "No meaning found."
    /\ outcome.reading[1]["Numerology"] = "No numerology found."
    /\ outcome.reading[2]["Meaning"] = "No meaning found."
    /\ outcome.reading[3]["Meaning"] = "Recklessness"

---------------------------------------------------------------------------
(* The script, checked under SpecMain.                                     *)

\* the number of cards the chosen layout requires
Required == Len(spread_layouts[layout_choice].positions)

\* C9: the script ends with a reading of exactly the layout's position
\* count when the layout has no more positions than the full deck holds
\* (78 for the deck literal).  Otherwise draw_cards returns fewer cards
\* than asked without raising, create_reading then raises the count
\* mismatch, and no reading shorter than the layout is ever produced.
C9_ReadingMatchesLayout ==
    pc \in {"printed", "raised"} =>
        /\ pc = "printed" <=> Required <= Len(full_deck)
        /\ full_deck = DeckLiteral => (pc = "printed" <=> Required <= 78)
        /\ pc = "printed" =>
               outcome.kind = "return" /\ Len(outcome.reading) = Required
        /\ pc = "raised" =>
               /\ raised = "none"
               /\ Len(ret) < Required
               /\ outcome.kind = "ValueError"
               /\ outcome.template = MismatchTemplate
               /\ outcome.count = Required
               /\ outcome.reading = <<>>

\* the script ended by the count mismatch after drawing the whole deck
C9_Witness ==
    /\ pc = "raised"
    /\ layout_choice = "oversize"
    /\ Len(ret) = Len(full_deck)
    /\ deck = <<>>
    /\ outcome.template = MismatchTemplate

=============================================================================
